---- MODULE Spec2Model ----
(***************************************************************************)
(* The authenticating CORS proxy of proxy-server.py: CORSProxyHandler      *)
(* (do_OPTIONS, do_GET, do_POST, _proxy_request, end_headers) served by    *)
(* the socketserver.TCPServer of run_server, one connection at a time.     *)
(*                                                                         *)
(* Text is a sequence of code points and a byte string a sequence of       *)
(* integers 0..255; str.encode() / bytes.decode() are the UTF-8            *)
(* conversions below.  HMAC-SHA256 and base64 are taken as collision free. *)
(***************************************************************************)
EXTENDS Integers, Sequences, FiniteSets, TLC

\* ------------------------------------------------------------------ bounds
MaxTail == 2        \* characters of the request target after its head
MaxBody == 1        \* bytes of an inbound body
MaxClock == 10      \* largest value of the millisecond clock
MaxRedirects == 1   \* redirects urlopen follows before the model stops it
MaxBacklog == 1     \* connections waiting in the listen queue

\* ------------------------------------------------------ text and byte strings
\* '?', the separator of self.path.split('?')
ChQuery == 63

StrGET == <<71, 69, 84>>
StrPOST == <<80, 79, 83, 84>>
StrOPTIONS == <<79, 80, 84, 73, 79, 78, 83>>
StrHEAD == <<72, 69, 65, 68>>
StrPUT == <<80, 85, 84>>

\* str.upper() on ASCII letters
Upper(s) == [i \in 1..Len(s) |-> IF s[i] >= 97 /\ s[i] <= 122 THEN s[i] - 32 ELSE s[i]]

\* s.startswith(p)
StartsWith(s, p) == Len(s) >= Len(p) /\ SubSeq(s, 1, Len(p)) = p

\* index of the first occurrence of c in s at or after i, 0 when there is none
RECURSIVE Find(_, _, _)
Find(s, c, i) ==
    IF i > Len(s) THEN 0
    ELSE IF s[i] = c THEN i
    ELSE Find(s, c, i + 1)

\* s.split(c): the list of the pieces of s between occurrences of c
RECURSIVE Split(_, _)
Split(s, c) ==
    LET k == Find(s, c, 1) IN
    IF k = 0 THEN <<s>>
    ELSE <<SubSeq(s, 1, k - 1)>> \o Split(SubSeq(s, k + 1, Len(s)), c)

\* str(n) for n >= 0: the decimal digits
RECURSIVE IntToStr(_)
IntToStr(n) ==
    IF n < 10 THEN <<48 + n>>
    ELSE IntToStr(n \div 10) \o <<48 + (n % 10)>>

IsDigits(s) == Len(s) > 0 /\ \A i \in 1..Len(s) : s[i] >= 48 /\ s[i] <= 57

RECURSIVE DigitsValue(_)
DigitsValue(s) ==
    IF Len(s) = 0 THEN 0
    ELSE 10 * DigitsValue(SubSeq(s, 1, Len(s) - 1)) + (s[Len(s)] - 48)

\* int(s): [ok, val]; ok is FALSE where int() raises ValueError
ParseInt(s) ==
    IF IsDigits(s) THEN [ok |-> TRUE, val |-> DigitsValue(s)]
    ELSE IF Len(s) > 1 /\ s[1] = 45 /\ IsDigits(Tail(s))
        THEN [ok |-> TRUE, val |-> 0 - DigitsValue(Tail(s))]
    ELSE IF Len(s) > 1 /\ s[1] = 43 /\ IsDigits(Tail(s))
        THEN [ok |-> TRUE, val |-> DigitsValue(Tail(s))]
    ELSE [ok |-> FALSE, val |-> 0]

\* ------------------------------------------------------------------- UTF-8
Replacement == 65533    \* U+FFFD

IsCont(x) == x >= 128 /\ x <= 191

\* the second byte of a 3-byte sequence with lead x (no overlongs, no surrogates)
Second3(x, y) ==
    IF x = 224 THEN y >= 160 /\ y <= 191
    ELSE IF x = 237 THEN y >= 128 /\ y <= 159
    ELSE IsCont(y)

\* the second byte of a 4-byte sequence with lead x (U+10000..U+10FFFF)
Second4(x, y) ==
    IF x = 240 THEN y >= 144 /\ y <= 191
    ELSE IF x = 244 THEN y >= 128 /\ y <= 143
    ELSE IsCont(y)

\* length of the well-formed sequence starting at b[i], 0 when it is ill-formed
Utf8Len(b, i) ==
    LET x == b[i]
        n == Len(b)
    IN  IF x < 128 THEN 1
        ELSE IF x >= 194 /\ x <= 223
            THEN IF i + 1 <= n /\ IsCont(b[i + 1]) THEN 2 ELSE 0
        ELSE IF x >= 224 /\ x <= 239
            THEN IF i + 2 <= n /\ Second3(x, b[i + 1]) /\ IsCont(b[i + 2]) THEN 3 ELSE 0
        ELSE IF x >= 240 /\ x <= 244
            THEN IF i + 3 <= n /\ Second4(x, b[i + 1]) /\ IsCont(b[i + 2]) /\ IsCont(b[i + 3])
                 THEN 4 ELSE 0
        ELSE 0

\* bytes of the ill-formed sequence at b[i] that errors='replace' turns into one U+FFFD
Utf8Bad(b, i) ==
    LET x == b[i]
        n == Len(b)
    IN  IF x >= 224 /\ x <= 239 /\ i + 1 <= n /\ Second3(x, b[i + 1]) THEN 2
        ELSE IF x >= 240 /\ x <= 244 /\ i + 1 <= n /\ Second4(x, b[i + 1])
            THEN IF i + 2 <= n /\ IsCont(b[i + 2]) THEN 3 ELSE 2
        ELSE 1

Utf8Point(b, i, k) ==
    IF k = 1 THEN b[i]
    ELSE IF k = 2 THEN (b[i] - 192) * 64 + (b[i + 1] - 128)
    ELSE IF k = 3 THEN (b[i] - 224) * 4096 + (b[i + 1] - 128) * 64 + (b[i + 2] - 128)
    ELSE (b[i] - 240) * 262144 + (b[i + 1] - 128) * 4096 + (b[i + 2] - 128) * 64
         + (b[i + 3] - 128)

\* bytes.decode('utf-8'): TRUE where it does not raise UnicodeDecodeError
RECURSIVE Utf8Valid(_, _)
Utf8Valid(b, i) ==
    IF i > Len(b) THEN TRUE
    ELSE LET k == Utf8Len(b, i) IN k > 0 /\ Utf8Valid(b, i + k)

\* bytes.decode('utf-8', errors='replace') from position i; on well-formed input
\* this is bytes.decode('utf-8')
RECURSIVE Utf8DecodeFrom(_, _)
Utf8DecodeFrom(b, i) ==
    IF i > Len(b) THEN <<>>
    ELSE LET k == Utf8Len(b, i) IN
         IF k > 0 THEN <<Utf8Point(b, i, k)>> \o Utf8DecodeFrom(b, i + k)
         ELSE <<Replacement>> \o Utf8DecodeFrom(b, i + Utf8Bad(b, i))

DecodeReplace(b) == Utf8DecodeFrom(b, 1)

\* bytes.decode('utf-8'): [ok, str]; ok is FALSE where it raises
DecodeStrict(b) ==
    IF Utf8Valid(b, 1) THEN [ok |-> TRUE, str |-> Utf8DecodeFrom(b, 1)]
    ELSE [ok |-> FALSE, str |-> <<>>]

EncodePoint(c) ==
    IF c < 128 THEN <<c>>
    ELSE IF c < 2048 THEN <<192 + (c \div 64), 128 + (c % 64)>>
    ELSE IF c < 65536
        THEN <<224 + (c \div 4096), 128 + ((c \div 64) % 64), 128 + (c % 64)>>
    ELSE <<240 + (c \div 262144), 128 + ((c \div 4096) % 64), 128 + ((c \div 64) % 64),
           128 + (c % 64)>>

\* str.encode() / str.encode('utf-8')
RECURSIVE Encode(_)
Encode(s) ==
    IF Len(s) = 0 THEN <<>>
    ELSE EncodePoint(Head(s)) \o Encode(Tail(s))

\* ------------------------------------------------------------- configuration
WEEX_API_BASE ==
    <<104, 116, 116, 112, 115, 58, 47, 47, 97, 112, 105, 45, 99, 111, 110, 116, 114, 97,
      99, 116, 46, 119, 101, 101, 120, 46, 99, 111, 109>>   \* "https://api-contract.weex.com"

ApiPrefix == <<47, 99, 97, 112, 105, 47>>                    \* "/capi/"
AppJson == <<97, 112, 112, 108, 105, 99, 97, 116, 105, 111, 110, 47, 106, 115, 111, 110>>
DefaultLocale == <<101, 110, 45, 85, 83>>                    \* "en-US"

\* ------------------------------------------------------------------ Signer
\* base64(HMAC-SHA256(key, msg)).decode(): an injective function of (key, msg) whose
\* values are no plain header text (the leading -1 is no code point)
Base64Hmac(key, msg) == <<-1, Len(key)>> \o key \o msg

\* message = timestamp + method.upper() + path + body
Message(timestamp, method, path, body) == timestamp \o Upper(method) \o path \o body

generate_signature(secret, timestamp, method, path, body) ==
    Base64Hmac(Encode(secret), Encode(Message(timestamp, method, path, body)))

\* ------------------------------------------------------------ inbound requests
Methods == {StrGET, StrPOST, StrOPTIONS, StrHEAD, StrPUT}

\* request targets: a head ("/capi/", "/capi", "/") and up to MaxTail of 'a', '?'
Heads == {ApiPrefix, <<47, 99, 97, 112, 105>>, <<47>>}
TailChars == {97, ChQuery}
Tails == UNION {[1..n -> TailChars] : n \in 0..MaxTail}
Targets == {h \o t : h \in Heads, t \in Tails}

\* body bytes: 'A', and the two bytes of U+00E9, each of which alone is ill-formed
BodyBytes == {65, 195, 169}
Bodies == UNION {[1..n -> BodyBytes] : n \in 0..MaxBody}

CredNames == {"ACCESS-KEY", "ACCESS-SIGN", "ACCESS-PASSPHRASE"}
CredValue(n) ==
    IF n = "ACCESS-KEY" THEN <<75>>             \* "K"
    ELSE IF n = "ACCESS-SIGN" THEN <<83>>       \* "S", the caller's secret
    ELSE <<80>>                                 \* "P"

AllCredentials == [n \in CredNames |-> CredValue(n)]

\* the credential headers of a request: all three set; one of them absent; one of
\* them empty; none sent
CredHeaders ==
    {AllCredentials, <<>>}
    \cup {[n \in CredNames \ {m} |-> CredValue(n)] : m \in CredNames}
    \cup {[AllCredentials EXCEPT ![m] = <<>>] : m \in CredNames}

\* Content-Length: absent (no body follows), malformed, or the length of the body
Framings ==
    {[cl |-> "absent", body |-> <<>>], [cl |-> "malformed", body |-> <<>>]}
    \cup {[cl |-> "length", body |-> b] : b \in Bodies}

Merge(f, g) == [n \in DOMAIN f \cup DOMAIN g |-> IF n \in DOMAIN f THEN f[n] ELSE g[n]]

FramingHeaders(fr) ==
    IF fr.cl = "absent" THEN <<>>
    ELSE IF fr.cl = "malformed" THEN [n \in {"Content-Length"} |-> <<122>>]
    ELSE [n \in {"Content-Length"} |-> IntToStr(Len(fr.body))]

Requests ==
    {[command |-> m, path |-> p, headers |-> Merge(c, FramingHeaders(fr)), rfile |-> fr.body] :
        m \in Methods, p \in Targets, c \in CredHeaders, fr \in Framings}

NoRequest == [command |-> <<>>, path |-> <<>>, headers |-> <<>>, rfile |-> <<>>]

\* self.headers.get(name, default)
Get(headers, name, default) == IF name \in DOMAIN headers THEN headers[name] ELSE default

\* ------------------------------------------------------------------- state
VARIABLES
    pc,         \* where the server is: "idle", "dispatch", a place in a handler, "done"
    req,        \* the request being handled (command, path, headers, rfile)
    conn,       \* the caller's connection: "open", "closed" by the caller, "broken"
    hbuf,       \* _headers_buffer: status lines and headers not yet flushed
    wire,       \* what the server has written to the caller, in order
    calls,      \* the outbound upstream calls issued for this request, in order
    signed,     \* the generate_signature calls made for this request
    up,         \* the outcome of the upstream call
    exc,        \* the exception being handled, or the one that left the handler
    lookups,    \* static file lookups made for this request
    page,       \* the body a static or error response still has to write
    handler,    \* the branch that serves the request
    backlog     \* connections made to the listening socket and not yet accepted

vars == <<pc, req, conn, hbuf, wire, calls, signed, up, exc, lookups, page, handler,
          backlog>>

NoUp == [kind |-> "none"]
NoExc == [type |-> "none"]
NoPage == [kind |-> "none"]

Init ==
    /\ pc = "idle"
    /\ req = NoRequest
    /\ conn = "open"
    /\ hbuf = <<>>
    /\ wire = <<>>
    /\ calls = <<>>
    /\ signed = <<>>
    /\ up = NoUp
    /\ exc = NoExc
    /\ lookups = 0
    /\ page = NoPage
    /\ handler = "none"
    /\ backlog = 0

\* ------------------------------------------------------------ response writing
\* send_response(code): the status line and the Server and Date headers, buffered
SendResponse(buf, code) ==
    buf \o <<[status |-> code], [name |-> "Server", value |-> "SimpleHTTP"],
             [name |-> "Date", value |-> "date"]>>

\* send_header(name, value), buffered
SendHeader(buf, name, value) == Append(buf, [name |-> name, value |-> value])

CorsHeaders ==
    <<[name |-> "Access-Control-Allow-Origin", value |-> "*"],
      [name |-> "Access-Control-Allow-Methods", value |-> "GET, POST, PUT, DELETE, OPTIONS"],
      [name |-> "Access-Control-Allow-Headers", value |-> "*"],
      [name |-> "Access-Control-Expose-Headers", value |-> "*"],
      [name |-> "Cache-Control", value |-> "no-cache, no-store, must-revalidate"]>>

\* faulty variant: end_headers is not overridden
EndHeadersNoCors(buf) == buf

\* CORSProxyHandler.end_headers: the five headers, then the buffer is flushed
EndHeaders(buf) == buf \o CorsHeaders

HeadChunk(buf) == [kind |-> "head", lines |-> buf]
BodyChunk(body) == [kind |-> "body", data |-> body]
Raw(bytes) == [kind |-> "bytes", bytes |-> bytes]

\* a write to the caller's socket succeeds while the connection is open; after the
\* caller has closed, writes are still accepted until the reset arrives
WriteOK(chunk) ==
    /\ conn # "broken"
    /\ wire' = Append(wire, chunk)
    /\ conn' \in (IF conn = "open" THEN {"open"} ELSE {"closed", "broken"})

\* a write on a broken connection raises BrokenPipeError and writes nothing
WriteFails ==
    /\ conn = "broken"
    /\ UNCHANGED <<wire, conn>>

BrokenPipe == [type |-> "BrokenPipeError", msg |-> "Broken pipe"]

\* end_headers(): flush the buffer (cleared only once written), go to `next`;
\* a failed flush raises, to `onfail`
Flush(buf, next, onfail) ==
    \/ /\ WriteOK(HeadChunk(EndHeaders(buf)))
       /\ hbuf' = <<>>
       /\ pc' = next
       /\ UNCHANGED exc
    \/ /\ WriteFails
       /\ hbuf' = EndHeaders(buf)
       /\ pc' = onfail
       /\ exc' = BrokenPipe

\* wfile.write(body), then go to `next`; a failed write raises, to `onfail`
WriteBody(body, next, onfail) ==
    \/ /\ WriteOK(BodyChunk(body))
       /\ pc' = next
       /\ UNCHANGED exc
    \/ /\ WriteFails
       /\ pc' = onfail
       /\ exc' = BrokenPipe

\* print(...): the line goes to stdout, or the write to stdout raises OSError (the
\* log is on a full device, or is a pipe whose reader has gone)
StdoutError == [type |-> "OSError", msg |-> "[Errno 28] No space left on device"]

\* wfile.write(body); print(...): then go to `next`; a failed write raises, to
\* `onfail`, and a failed print raises, to `onprint`
WriteBodyAndPrint(body, next, onfail, onprint) ==
    \/ /\ WriteOK(BodyChunk(body))
       /\ \/ /\ pc' = next
             /\ UNCHANGED exc
          \/ /\ pc' = onprint
             /\ exc' = StdoutError
    \/ /\ WriteFails
       /\ pc' = onfail
       /\ exc' = BrokenPipe

\* ------------------------------------------------------------------ server
\* TCPServer.serve_forever: accept one connection and read its request
Accept ==
    /\ pc = "idle"
    /\ \E r \in Requests : req' = r
    /\ pc' = "dispatch"
    /\ UNCHANGED <<conn, hbuf, wire, calls, signed, up, exc, lookups, page, handler, backlog>>

\* the caller closes its end while its request is being handled
ClientDisconnect ==
    /\ pc \notin {"idle", "done", "raised"}
    /\ conn = "open"
    /\ conn' = "closed"
    /\ UNCHANGED <<pc, req, hbuf, wire, calls, signed, up, exc, lookups, page, handler, backlog>>

\* faulty variant: the preflight is answered 204
do_OPTIONS_204 ==
    /\ pc = "dispatch"
    /\ req.command = StrOPTIONS
    /\ Flush(SendResponse(hbuf, 204), "done", "raised")
    /\ UNCHANGED <<req, calls, signed, up, lookups, page, backlog>>
    /\ handler' = "do_OPTIONS"

\* do_OPTIONS: send_response(200); end_headers()
do_OPTIONS ==
    /\ pc = "dispatch"
    /\ req.command = StrOPTIONS
    /\ Flush(SendResponse(hbuf, 200), "done", "raised")
    /\ UNCHANGED <<req, calls, signed, up, lookups, page, backlog>>
    /\ handler' = "do_OPTIONS"

\* ------------------------------------------------------- static and rejected
\* faulty variant: the prefix is tested without its closing slash
IsApiPathNoSlash(path) == StartsWith(path, SubSeq(ApiPrefix, 1, Len(ApiPrefix) - 1))

\* self.path.startswith('/capi/')
IsApiPath(path) == StartsWith(path, ApiPrefix)

ErrorPage(code) == [kind |-> "error_page", code |-> code]
FilePage == [kind |-> "file"]

\* send_error(code): status, Connection, Content-Type, Content-Length, end_headers();
\* the page follows unless the request is a HEAD
SendError(code) ==
    /\ Flush(SendHeader(SendHeader(SendHeader(SendResponse(hbuf, code),
                "Connection", "close"), "Content-Type", "text/html;charset=utf-8"),
                "Content-Length", "len"),
             IF req.command = StrHEAD THEN "done" ELSE "page_body", "raised")
    /\ page' = IF req.command = StrHEAD THEN NoPage ELSE ErrorPage(code)

\* what the file system holds at the translated path
StaticOutcomes == {"file", "missing", "moved", "not_modified"}

\* SimpleHTTPRequestHandler.send_head(): look the path up and send the headers
SendHead(outcome) ==
    /\ lookups' = lookups + 1
    /\ \/ /\ outcome = "file"
          /\ Flush(SendHeader(SendHeader(SendHeader(SendResponse(hbuf, 200),
                      "Content-type", "guessed"), "Content-Length", "len"),
                      "Last-Modified", "mtime"),
                   IF req.command = StrHEAD THEN "done" ELSE "page_body", "raised")
          /\ page' = IF req.command = StrHEAD THEN NoPage ELSE FilePage
       \/ /\ outcome = "missing"
          /\ SendError(404)
       \/ /\ outcome = "moved"
          /\ Flush(SendHeader(SendHeader(SendResponse(hbuf, 301), "Location", "dir/"),
                      "Content-Length", "0"), "done", "raised")
          /\ UNCHANGED page
       \/ /\ outcome = "not_modified"
          /\ Flush(SendResponse(hbuf, 304), "done", "raised")
          /\ UNCHANGED page

\* do_GET, else branch: super().do_GET() serves a file
do_GET_static ==
    /\ pc = "dispatch"
    /\ req.command = StrGET
    /\ ~IsApiPath(req.path)
    /\ \E o \in StaticOutcomes : SendHead(o)
    /\ UNCHANGED <<req, calls, signed, up, backlog>>
    /\ handler' = "static"

\* do_HEAD is inherited: every path is looked up as a file
do_HEAD ==
    /\ pc = "dispatch"
    /\ req.command = StrHEAD
    /\ \E o \in StaticOutcomes : SendHead(o)
    /\ UNCHANGED <<req, calls, signed, up, backlog>>
    /\ handler' = "static"

\* do_POST, else branch: send_error(404, "Not Found")
do_POST_not_found ==
    /\ pc = "dispatch"
    /\ req.command = StrPOST
    /\ ~IsApiPath(req.path)
    /\ SendError(404)
    /\ UNCHANGED <<req, calls, signed, up, lookups, backlog>>
    /\ handler' = "send_error"

\* a method with no do_ method: send_error(501)
Unsupported ==
    /\ pc = "dispatch"
    /\ req.command \notin {StrGET, StrPOST, StrOPTIONS, StrHEAD}
    /\ SendError(501)
    /\ UNCHANGED <<req, calls, signed, up, lookups, backlog>>
    /\ handler' = "send_error"

\* the file, or the error page, is written after its headers
PageBody ==
    /\ pc = "page_body"
    /\ WriteBody(page, "done", "raised")
    /\ UNCHANGED <<req, hbuf, calls, signed, up, lookups, page, handler, backlog>>

\* ------------------------------------------------------------ _proxy_request
PathParts(path) == Split(path, ChQuery)
BasePath(path) == PathParts(path)[1]
QueryString(path) == IF Len(PathParts(path)) > 1 THEN PathParts(path)[2] ELSE <<>>

TargetUrl(path) == WEEX_API_BASE \o path

\* int(self.headers.get('Content-Length', 0))
ContentLength(headers) == ParseInt(Get(headers, "Content-Length", <<48>>))

\* self.rfile.read(n)
Read(rfile, n) == SubSeq(rfile, 1, IF n < Len(rfile) THEN n ELSE Len(rfile))

\* self.rfile.read(content_length).decode('utf-8') if content_length > 0 else ""
ReadBody(r) ==
    IF ContentLength(r.headers).val > 0
    THEN DecodeStrict(Read(r.rfile, ContentLength(r.headers).val))
    ELSE [ok |-> TRUE, str |-> <<>>]

ApiKey(r) == Get(r.headers, "ACCESS-KEY", <<>>)
ApiSecret(r) == Get(r.headers, "ACCESS-SIGN", <<>>)
Passphrase(r) == Get(r.headers, "ACCESS-PASSPHRASE", <<>>)

\* faulty variant: the passphrase is not part of the test
IsAuthenticatedIgnoresPassphrase(r) == ApiKey(r) # <<>> /\ ApiSecret(r) # <<>>

\* if api_key and api_secret and passphrase
IsAuthenticated(r) == ApiKey(r) # <<>> /\ ApiSecret(r) # <<>> /\ Passphrase(r) # <<>>

\* faulty variant: the query string is signed whatever the method
SignPathAnyMethod(method, path) ==
    IF QueryString(path) # <<>>
    THEN BasePath(path) \o <<ChQuery>> \o QueryString(path)
    ELSE BasePath(path)

SignPath(method, path) ==
    IF Upper(method) = StrGET /\ QueryString(path) # <<>>
    THEN BasePath(path) \o <<ChQuery>> \o QueryString(path)
    ELSE BasePath(path)

SignBody(method, body) == IF Upper(method) = StrPOST THEN body ELSE <<>>

\* str(int(time.time() * 1000)) at clock value t
Timestamp(t) == IntToStr(t)

\* faulty variant: the secret itself is forwarded in place of the signature
SignatureIsSecret(r, method, body, t) == ApiSecret(r)

Signature(r, method, body, t) ==
    generate_signature(ApiSecret(r), Timestamp(t), method, SignPath(method, r.path),
                       SignBody(method, body))

BaseHeaders(r) ==
    [n \in {"Content-Type", "locale"} |->
        IF n = "Content-Type" THEN AppJson ELSE Get(r.headers, "locale", DefaultLocale)]

\* faulty variant: ACCESS-TIMESTAMP is taken from a second reading of the clock
AuthHeadersSecondClockRead(r, method, body, t) ==
    [n \in {"ACCESS-KEY", "ACCESS-SIGN", "ACCESS-PASSPHRASE", "ACCESS-TIMESTAMP"} |->
        IF n = "ACCESS-KEY" THEN ApiKey(r)
        ELSE IF n = "ACCESS-SIGN" THEN Signature(r, method, body, t)
        ELSE IF n = "ACCESS-PASSPHRASE" THEN Passphrase(r)
        ELSE Timestamp(t + 1)]

AuthHeaders(r, method, body, t) ==
    [n \in {"ACCESS-KEY", "ACCESS-SIGN", "ACCESS-PASSPHRASE", "ACCESS-TIMESTAMP"} |->
        IF n = "ACCESS-KEY" THEN ApiKey(r)
        ELSE IF n = "ACCESS-SIGN" THEN Signature(r, method, body, t)
        ELSE IF n = "ACCESS-PASSPHRASE" THEN Passphrase(r)
        ELSE Timestamp(t)]

ForwardHeaders(r, method, body, t) ==
    IF IsAuthenticated(r)
    THEN Merge(AuthHeaders(r, method, body, t), BaseHeaders(r))
    ELSE BaseHeaders(r)

\* Request(target_url, data=body.encode('utf-8') if body else None, headers, method);
\* data <<>> stands for None
OutboundRequest(r, method, body, t) ==
    [url |-> TargetUrl(r.path), method |-> method, headers |-> ForwardHeaders(r, method, body, t),
     data |-> Encode(body)]

\* the record of one generate_signature call
SignCall(r, method, body, t) ==
    [secret |-> ApiSecret(r), timestamp |-> Timestamp(t), method |-> method,
     path |-> SignPath(method, r.path), body |-> SignBody(method, body),
     message |-> Encode(Message(Timestamp(t), method, SignPath(method, r.path),
                                SignBody(method, body)))]

Times == (MaxClock - 1)..MaxClock

\* _proxy_request(method), lines 76-135: parse, read the body, sign, print the
\* request, call urlopen
ProxyPrepare(method) ==
    \/ /\ ~ContentLength(req.headers).ok
       /\ exc' = [type |-> "ValueError", msg |-> "invalid literal for int() with base 10"]
       /\ pc' = "except_Exception"
       /\ UNCHANGED <<calls, signed>>
    \/ /\ ContentLength(req.headers).ok
       /\ ~ReadBody(req).ok
       /\ exc' = [type |-> "UnicodeDecodeError", msg |-> "'utf-8' codec can't decode byte"]
       /\ pc' = "except_Exception"
       /\ UNCHANGED <<calls, signed>>
    \/ /\ ContentLength(req.headers).ok
       /\ ReadBody(req).ok
       /\ \E t \in Times :
            /\ signed' = IF IsAuthenticated(req)
                         THEN <<SignCall(req, method, ReadBody(req).str, t)>> ELSE <<>>
            /\ calls' = <<OutboundRequest(req, method, ReadBody(req).str, t)>>
       /\ pc' = "urlopen"
       /\ UNCHANGED exc
    \/ /\ ContentLength(req.headers).ok
       /\ ReadBody(req).ok
       /\ \E t \in Times :
            signed' = IF IsAuthenticated(req)
                      THEN <<SignCall(req, method, ReadBody(req).str, t)>> ELSE <<>>
       /\ exc' = StdoutError
       /\ pc' = "except_Exception"
       /\ UNCHANGED calls

\* do_GET, if branch: self._proxy_request('GET')
do_GET_proxy ==
    /\ pc = "dispatch"
    /\ req.command = StrGET
    /\ IsApiPath(req.path)
    /\ ProxyPrepare(StrGET)
    /\ UNCHANGED <<req, conn, hbuf, wire, up, lookups, page, backlog>>
    /\ handler' = "_proxy_request"

\* do_POST, if branch: self._proxy_request('POST')
do_POST_proxy ==
    /\ pc = "dispatch"
    /\ req.command = StrPOST
    /\ IsApiPath(req.path)
    /\ ProxyPrepare(StrPOST)
    /\ UNCHANGED <<req, conn, hbuf, wire, up, lookups, page, backlog>>
    /\ handler' = "_proxy_request"

\* ------------------------------------------------------------- the upstream
OkStatuses == {200, 201}
ErrorStatuses == {400, 503}

\* response headers the upstream may send: none; a content type; the three
\* rate-limit headers; a rate-limit header with an empty value
UpstreamHeaderSets ==
    {<<>>,
     [n \in {"Content-Type"} |-> "text/plain"],
     [n \in {"X-RateLimit-Limit", "X-RateLimit-Remaining", "X-RateLimit-Reset"} |-> "9"],
     [n \in {"X-RateLimit-Remaining"} |-> ""]}

\* why no connection was made: DNS, refused, TLS, timeout while connecting
ConnectFailures ==
    {"Name or service not known", "Connection refused", "CERTIFICATE_VERIFY_FAILED",
     "timed out"}

\* bodies the upstream may send: none, ASCII, an ill-formed byte, U+00E9
UpstreamBodies == {<<>>, <<65>>, <<195>>, <<195, 169>>}

\* urlopen returns: the upstream answered 2xx and response.read() has its body
UpstreamResponds ==
    /\ pc = "urlopen"
    /\ \E st \in OkStatuses, h \in UpstreamHeaderSets, b \in UpstreamBodies :
         up' = [kind |-> "response", status |-> st, headers |-> h, body |-> b]
    /\ pc' = "respond"
    /\ UNCHANGED <<req, conn, hbuf, wire, calls, signed, exc, lookups, page, handler, backlog>>

\* urlopen raises HTTPError: the upstream answered with a status outside 2xx
UpstreamHTTPError ==
    /\ pc = "urlopen"
    /\ \E st \in ErrorStatuses, b \in UpstreamBodies :
         up' = [kind |-> "http_error", status |-> st, body |-> b]
    /\ exc' = [type |-> "HTTPError", msg |-> "HTTP Error"]
    /\ pc' = "except_HTTPError"
    /\ UNCHANGED <<req, conn, hbuf, wire, calls, signed, lookups, page, handler, backlog>>

RedirectTarget == WEEX_API_BASE \o <<47>>

\* the upstream answered 301/302/303 with a Location: urlopen follows it with a GET
\* that keeps the headers but Content-Type, and has no body
UpstreamRedirects ==
    /\ pc = "urlopen"
    /\ Len(calls) <= MaxRedirects
    /\ calls' = Append(calls,
            [url |-> RedirectTarget, method |-> StrGET, data |-> <<>>,
             headers |-> [n \in DOMAIN calls[1].headers \ {"Content-Type"} |->
                             calls[1].headers[n]]])
    /\ UNCHANGED <<pc, req, conn, hbuf, wire, signed, up, exc, lookups, page, handler, backlog>>

\* urlopen raises URLError: no connection to the upstream was made
UpstreamUnreachable ==
    /\ pc = "urlopen"
    /\ \E why \in ConnectFailures :
         /\ up' = [kind |-> "no_connection", reason |-> why]
         /\ exc' = [type |-> "URLError", msg |-> why]
    /\ pc' = "except_URLError"
    /\ UNCHANGED <<req, conn, hbuf, wire, calls, signed, lookups, page, handler, backlog>>

\* the connection was made and the request sent, and no response came: the timeout
\* elapsed (TimeoutError) or the upstream closed (RemoteDisconnected); urlopen
\* raises these as they are
UpstreamSilent ==
    /\ pc = "urlopen"
    /\ \E e \in {[type |-> "TimeoutError", msg |-> "timed out"],
                 [type |-> "RemoteDisconnected",
                  msg |-> "Remote end closed connection without response"]} :
         /\ up' = [kind |-> "no_response", reason |-> e.msg]
         /\ exc' = e
    /\ pc' = "except_Exception"
    /\ UNCHANGED <<req, conn, hbuf, wire, calls, signed, lookups, page, handler, backlog>>

\* ----------------------------------------------------- responding to the caller
\* response.getheader(name, default)
GetHeader(name, default) == Get(up.headers, name, default)

RECURSIVE ForwardRateLimit(_, _)
\* for header in [...]: value = response.getheader(header); if value: send_header
ForwardRateLimit(buf, names) ==
    IF Len(names) = 0 THEN buf
    ELSE ForwardRateLimit(
            IF GetHeader(Head(names), "") # "" THEN SendHeader(buf, Head(names), GetHeader(Head(names), ""))
            ELSE buf,
            Tail(names))

RateLimitHeaders == <<"X-RateLimit-Limit", "X-RateLimit-Remaining", "X-RateLimit-Reset">>

\* lines 138-147: status, Content-Type, rate-limit headers, end_headers()
Respond ==
    /\ pc = "respond"
    /\ Flush(ForwardRateLimit(
                SendHeader(SendResponse(hbuf, up.status), "Content-Type",
                           GetHeader("Content-Type", "application/json")),
                RateLimitHeaders),
             "respond_body", "except_Exception")
    /\ UNCHANGED <<req, calls, signed, up, lookups, page, handler, backlog>>

\* lines 148-151: self.wfile.write(response_body); print(...)
RespondBody ==
    /\ pc = "respond_body"
    /\ WriteBodyAndPrint(Raw(up.body), "done", "except_Exception", "except_Exception")
    /\ UNCHANGED <<req, hbuf, calls, signed, up, lookups, page, handler, backlog>>

\* e.read().decode('utf-8', errors='replace'), and error_body.encode()
ErrorBody(body) == Encode(DecodeReplace(body))

\* except HTTPError, lines 154-157
ExceptHTTPError ==
    /\ pc = "except_HTTPError"
    /\ Flush(SendHeader(SendResponse(hbuf, up.status), "Content-Type", "application/json"),
             "http_error_body", "raised")
    /\ UNCHANGED <<req, calls, signed, up, lookups, page, handler, backlog>>

\* except HTTPError, lines 158-159; an exception raised here leaves the handler
ExceptHTTPErrorBody ==
    /\ pc = "http_error_body"
    /\ WriteBodyAndPrint(Raw(ErrorBody(up.body)), "done", "raised", "raised")
    /\ UNCHANGED <<req, hbuf, calls, signed, up, lookups, page, handler, backlog>>

\* json.dumps({"code": ..., "msg": ..., "requestTime": None, "data": None}).encode()
ErrorEnvelope(code, prefix, detail) ==
    [kind |-> "json", code |-> code, msg |-> <<prefix, detail>>, requestTime |-> "null",
     data |-> "null"]

\* except URLError, lines 162-164
ExceptURLError ==
    /\ pc = "except_URLError"
    /\ Flush(SendHeader(SendResponse(hbuf, 502), "Content-Type", "application/json"),
             "url_error_body", "raised")
    /\ UNCHANGED <<req, calls, signed, up, lookups, page, handler, backlog>>

\* except URLError, lines 165-172; the handled exception is still e
ExceptURLErrorBody ==
    /\ pc = "url_error_body"
    /\ WriteBodyAndPrint(ErrorEnvelope("502", "Failed to connect to WEEX API: ", up.reason),
                         "done", "raised", "raised")
    /\ UNCHANGED <<req, hbuf, calls, signed, up, lookups, page, handler, backlog>>

\* faulty variant: the generic handler answers 502 like the URLError handler
ExceptExceptionSends502 ==
    /\ pc = "except_Exception"
    /\ Flush(SendHeader(SendResponse(hbuf, 502), "Content-Type", "application/json"),
             "exception_body", "raised")
    /\ UNCHANGED <<req, calls, signed, up, lookups, page, handler, backlog>>

\* except Exception, lines 175-177
ExceptException ==
    /\ pc = "except_Exception"
    /\ Flush(SendHeader(SendResponse(hbuf, 500), "Content-Type", "application/json"),
             "exception_body", "raised")
    /\ UNCHANGED <<req, calls, signed, up, lookups, page, handler, backlog>>

\* except Exception, lines 178-185; the handled exception is still e
ExceptExceptionBody ==
    /\ pc = "exception_body"
    /\ WriteBodyAndPrint(ErrorEnvelope("500", "Proxy error: ", exc.msg),
                         "done", "raised", "raised")
    /\ UNCHANGED <<req, hbuf, calls, signed, up, lookups, page, handler, backlog>>

\* the handler has returned or raised: the connection is shut down and the server
\* goes back to accepting
Finish ==
    /\ pc \in {"done", "raised"}
    /\ pc' = "idle"
    /\ req' = NoRequest
    /\ conn' = "open"
    /\ hbuf' = <<>>
    /\ wire' = <<>>
    /\ calls' = <<>>
    /\ signed' = <<>>
    /\ up' = NoUp
    /\ exc' = NoExc
    /\ lookups' = 0
    /\ page' = NoPage
    /\ handler' = "none"
    /\ UNCHANGED backlog

Next ==
    \/ Accept
    \/ ClientDisconnect
    \/ do_OPTIONS
    \/ do_GET_proxy
    \/ do_GET_static
    \/ do_POST_proxy
    \/ do_POST_not_found
    \/ do_HEAD
    \/ Unsupported
    \/ PageBody
    \/ UpstreamResponds
    \/ UpstreamHTTPError
    \/ UpstreamRedirects
    \/ UpstreamUnreachable
    \/ UpstreamSilent
    \/ Respond
    \/ RespondBody
    \/ ExceptHTTPError
    \/ ExceptHTTPErrorBody
    \/ ExceptURLError
    \/ ExceptURLErrorBody
    \/ ExceptException
    \/ ExceptExceptionBody
    \/ Finish

Spec == Init /\ [][Next]_vars

\* ------------------------------------------------------- the listening socket
\* a caller connects while the server is inside a handler: the connection waits in
\* the listen queue of the TCPServer
Connect ==
    /\ pc # "idle"
    /\ backlog < MaxBacklog
    /\ backlog' = backlog + 1
    /\ UNCHANGED <<pc, req, conn, hbuf, wire, calls, signed, up, exc, lookups, page, handler>>

\* serve_forever, back from the handler: the next waiting connection is accepted and
\* its request read
AcceptQueued ==
    /\ pc = "idle"
    /\ backlog > 0
    /\ backlog' = backlog - 1
    /\ \E r \in Requests : req' = r
    /\ pc' = "dispatch"
    /\ UNCHANGED <<conn, hbuf, wire, calls, signed, up, exc, lookups, page, handler>>

NextServer ==
    \/ Next
    \/ Connect
    \/ AcceptQueued

\* the server with callers that connect while it is busy
SpecServer == Init /\ [][NextServer]_vars

\* ------------------------------------------------------------------ claims
\* the request target up to its first '?', and what follows that '?'
BarePath(target) ==
    IF Find(target, ChQuery, 1) = 0 THEN target
    ELSE SubSeq(target, 1, Find(target, ChQuery, 1) - 1)

AfterFirstQuery(target) ==
    IF Find(target, ChQuery, 1) = 0 THEN <<>>
    ELSE SubSeq(target, Find(target, ChQuery, 1) + 1, Len(target))

HasApiPrefix(target) ==
    Len(target) >= 6 /\ SubSeq(target, 1, 6) = <<47, 99, 97, 112, 105, 47>>

CredentialMissing(n) == n \notin DOMAIN req.headers \/ req.headers[n] = <<>>

AccessHeaders == {"ACCESS-KEY", "ACCESS-SIGN", "ACCESS-PASSPHRASE", "ACCESS-TIMESTAMP"}

\* the status line of the i-th thing written to the caller, and its last five headers
IsHead(i) == i <= Len(wire) /\ wire[i].kind = "head"
StatusOf(i) == wire[i].lines[1].status
LastFive(lines) == SubSeq(lines, Len(lines) - 4, Len(lines))

AllowOrigin == [name |-> "Access-Control-Allow-Origin", value |-> "*"]

\* one response: a header block with this status, then this body
OneResponse(status, body) ==
    /\ Len(wire) = 2
    /\ IsHead(1)
    /\ StatusOf(1) = status
    /\ \A j \in 2..Len(wire[1].lines) : DOMAIN wire[1].lines[j] = {"name", "value"}
    /\ wire[2] = [kind |-> "body", data |-> body]

\* C1: for every authenticated GET under the API prefix whose request target is P,
\* '?', and a non-empty Q (all that follows the first '?'), the signed message is
\* T + "GET" + P + "?" + Q: the signed path and query is the target forwarded upstream.
C1_SignedTargetIsForwardedTarget ==
    (/\ req.command = StrGET
     /\ Len(signed) > 0
     /\ Len(calls) > 0
     /\ AfterFirstQuery(req.path) # <<>>)
    => /\ signed[1].message =
            Encode(signed[1].timestamp \o StrGET \o BarePath(req.path) \o <<ChQuery>>
                   \o AfterFirstQuery(req.path))
       /\ calls[1].url = WEEX_API_BASE \o BarePath(req.path) \o <<ChQuery>>
                         \o AfterFirstQuery(req.path)

\* C2: for every authenticated POST with path P and body B the signed message is
\* T + "POST" + P + B, P the path without its query string and B the body bytes as
\* received; a POST that differs only in its query string signs the same message
\* at the same timestamp.
C2_PostMessage ==
    (req.command = StrPOST /\ Len(signed) > 0)
    => /\ signed[1].message =
            Encode(signed[1].timestamp) \o StrPOST \o BarePath(req.path) \o req.rfile
       /\ Len(calls) > 0
          => /\ signed[1].timestamp = calls[1].headers["ACCESS-TIMESTAMP"]
             /\ calls[1].headers["ACCESS-SIGN"] =
                  Base64Hmac(Encode(req.headers["ACCESS-SIGN"]),
                             Encode(calls[1].headers["ACCESS-TIMESTAMP"]) \o StrPOST
                             \o BarePath(req.path) \o req.rfile)
       /\ pc = "urlopen"
          => \A q \in Tails, t \in Times :
                LET other == [req EXCEPT !.path = BarePath(req.path) \o <<ChQuery>> \o q] IN
                Timestamp(t) = signed[1].timestamp
                => SignCall(other, StrPOST, ReadBody(other).str, t).message
                   = signed[1].message

C2_Witness ==
    /\ req.command = StrPOST
    /\ Len(signed) = 1
    /\ AfterFirstQuery(req.path) # <<>>
    /\ req.rfile # <<>>
    /\ pc = "urlopen"

\* C3: a proxied request with any of ACCESS-KEY, ACCESS-SIGN, ACCESS-PASSPHRASE absent
\* or empty is forwarded as a public request: nothing is signed and no outbound
\* call carries ACCESS-KEY, ACCESS-SIGN, ACCESS-PASSPHRASE or ACCESS-TIMESTAMP.
C3_PartialCredentialsArePublic ==
    (\E n \in CredNames : CredentialMissing(n))
    => /\ signed = <<>>
       /\ \A i \in 1..Len(calls) : DOMAIN calls[i].headers \cap AccessHeaders = {}

C3_Witness ==
    /\ pc = "urlopen"
    /\ Len(calls) = 1
    /\ ~CredentialMissing("ACCESS-KEY")
    /\ ~CredentialMissing("ACCESS-PASSPHRASE")
    /\ "ACCESS-SIGN" \in DOMAIN req.headers
    /\ req.headers["ACCESS-SIGN"] = <<>>

\* C4: with all three credential headers non-empty, every outbound call carries
\* ACCESS-KEY and ACCESS-PASSPHRASE as received, ACCESS-SIGN the signature computed
\* with the received secret, and ACCESS-TIMESTAMP the timestamp T that starts the
\* signed message.
C4_SignedHeaders ==
    ((\A n \in CredNames : ~CredentialMissing(n)) /\ Len(calls) > 0)
    => /\ Len(signed) = 1
       /\ signed[1].secret = req.headers["ACCESS-SIGN"]
       /\ \A i \in 1..Len(calls) :
            /\ AccessHeaders \subseteq DOMAIN calls[i].headers
            /\ calls[i].headers["ACCESS-KEY"] = req.headers["ACCESS-KEY"]
            /\ calls[i].headers["ACCESS-PASSPHRASE"] = req.headers["ACCESS-PASSPHRASE"]
            /\ calls[i].headers["ACCESS-SIGN"] =
                    Base64Hmac(Encode(req.headers["ACCESS-SIGN"]), signed[1].message)
            /\ calls[i].headers["ACCESS-TIMESTAMP"] = signed[1].timestamp
            /\ StartsWith(signed[1].message,
                          Encode(calls[i].headers["ACCESS-TIMESTAMP"] \o Upper(calls[1].method)))

C4_Witness ==
    /\ pc = "urlopen"
    /\ Len(calls) = 1
    /\ \A n \in CredNames : ~CredentialMissing(n)
    /\ calls[1].headers["ACCESS-TIMESTAMP"] = IntToStr(MaxClock)

\* C5: every header block the server writes, whatever the method, path and outcome,
\* carries Access-Control-Allow-Origin: * and ends with the fixed CORS and no-cache set.
C5_EveryResponseHasCors ==
    \A i \in 1..Len(wire) :
        wire[i].kind = "head"
        => /\ \E j \in 1..Len(wire[i].lines) : wire[i].lines[j] = AllowOrigin
           /\ Len(wire[i].lines) >= 6
           /\ LastFive(wire[i].lines) = CorsHeaders

C5_Witness ==
    /\ pc = "done"
    /\ handler = "_proxy_request"
    /\ IsHead(1)
    /\ StatusOf(1) = 500

\* C6: an upstream response outside 2xx is passed to the caller with the same status
\* code and the same body bytes, never a synthesized envelope.
C6_UpstreamErrorVerbatim ==
    (pc = "done" /\ up.kind = "http_error")
    => OneResponse(up.status, Raw(up.body))

\* C7: when the upstream call ends with no HTTP response (DNS failure, connection
\* refused, TLS failure, the timeout elapsing while connecting or while waiting for
\* the response) the caller receives 502 and the envelope with code "502", a msg
\* that includes the reason, and requestTime and data null.
C7_NoResponseIs502 ==
    (/\ pc = "done"
     /\ \/ up.kind = "no_connection"
        \/ up.kind = "no_response" /\ up.reason = "timed out")
    => OneResponse(502, ErrorEnvelope("502", "Failed to connect to WEEX API: ", up.reason))

\* the envelope of the fault being handled
FaultEnvelope ==
    [kind |-> "json", code |-> "500", msg |-> <<"Proxy error: ", exc.msg>>,
     requestTime |-> "null", data |-> "null"]

C9_Preflight ==
    req.command = StrOPTIONS
    => /\ calls = <<>>
       /\ signed = <<>>
       /\ lookups = 0
       /\ pc \in {"dispatch", "done", "raised"}
       /\ pc = "done"
          => wire = <<[kind |-> "head",
                       lines |-> <<[status |-> 200],
                                   [name |-> "Server", value |-> "SimpleHTTP"],
                                   [name |-> "Date", value |-> "date"]>> \o CorsHeaders]>>
       /\ pc = "raised" => wire = <<>> /\ conn = "broken"

C9_Witness ==
    /\ req.command = StrOPTIONS
    /\ HasApiPrefix(req.path)
    /\ \A n \in CredNames : ~CredentialMissing(n)
    /\ pc = "done"
    /\ conn = "open"

\* C10 as stated: a request is proxied if and only if its path starts with /capi/.
C10_ProxiedIffPrefix ==
    pc \notin {"idle", "dispatch"}
    => (handler = "_proxy_request" <=> HasApiPrefix(req.path))

\* C10 amended: a request is proxied if and only if its method is GET or POST and its
\* path starts with /capi/; every other request is served as a static asset, rejected
\* or answered as a preflight, and causes no upstream call and no signature.
C10_ProxiedIffGetOrPostWithPrefix ==
    pc \notin {"idle", "dispatch"}
    => /\ handler = "_proxy_request"
          <=> (HasApiPrefix(req.path) /\ req.command \in {StrGET, StrPOST})
       /\ handler # "_proxy_request"
          => /\ handler \in {"static", "send_error", "do_OPTIONS"}
             /\ calls = <<>>
             /\ signed = <<>>
       /\ (handler = "_proxy_request" /\ pc \in {"urlopen", "respond", "respond_body"})
          => Len(calls) >= 1

C10_Witness ==
    /\ pc = "done"
    /\ req.command = StrGET
    /\ req.path = <<47, 99, 97, 112, 105, 97>>
    /\ handler = "static"
    /\ lookups = 1

\* C11: one outbound upstream call is issued for a proxied request and never a
\* further one, whatever the outcome: at no point of the handling have two upstream
\* calls been issued for the request.
C11_OneUpstreamCall ==
    handler = "_proxy_request" => Len(calls) <= 1

\* C12: requests are handled by independent units: while a proxied request waits on
\* its upstream call, a connection that has arrived meanwhile can be accepted.
C12_AcceptsWhileBlocked ==
    (pc = "urlopen" /\ backlog > 0) => ENABLED AcceptQueued

\* the status lines in one thing written to the caller
StatusLineCount(chunk) ==
    IF chunk.kind = "head"
    THEN Cardinality({j \in 1..Len(chunk.lines) : "status" \in DOMAIN chunk.lines[j]})
    ELSE 0

\* C13: for a proxied request at most one response, one status line with its header
\* block, is written to the caller on every path through _proxy_request: a failure
\* after a response was started puts no second status line on the connection.
C13_AtMostOneStatusLine ==
    handler = "_proxy_request"
    => /\ Cardinality({i \in 1..Len(wire) : wire[i].kind = "head"}) <= 1
       /\ \A i \in 1..Len(wire) : StatusLineCount(wire[i]) <= 1

\* secrets a caller could have sent instead, and the texts of the faults
OtherSecrets == {<<84>>, <<83, 83>>}
FaultTexts ==
    ConnectFailures
    \cup {"timed out", "Remote end closed connection without response",
          "invalid literal for int() with base 10", "'utf-8' codec can't decode byte",
          "[Errno 28] No space left on device", "Broken pipe"}

\* the outbound request had the caller sent secret s instead, at the same timestamp
WithSecret(s, t) ==
    LET other == [req EXCEPT !.headers["ACCESS-SIGN"] = s]
    IN  OutboundRequest(other, req.command, ReadBody(other).str, t)

====
